---- MODULE Spec2Model ----
(***************************************************************************)
(* Model of the OpenHEXA MCP server (src/openhexa_mcp_server.py).           *)
(*                                                                         *)
(* Every tool is one synchronous handler: it is modelled as one action     *)
(* that runs the whole handler against the outcomes the transport client   *)
(* (the SDK object `openhexa`) gives to the calls the handler makes.        *)
(*                                                                         *)
(* Representation of Python values:                                        *)
(*   dict            a record (function on string keys); a key that is     *)
(*                   missing is missing from DOMAIN                        *)
(*   Optional[T]     <<>> for None, <<v>> for the value v                  *)
(*   list            a sequence                                            *)
(*   text that the code inspects (lower(), `in`)  a sequence of characters *)
(*   identifiers (slugs, ids, e-mails)            a string                 *)
(*   a message built by an f-string               the sequence of its parts*)
(*   an evaluation   [ret |-> v] when it returns v, [exc |-> t] when it    *)
(*                   raises an exception whose str() is t                  *)
(***************************************************************************)
EXTENDS Integers, Sequences, FiniteSets, TLC

VARIABLES
    OPENHEXA_AVAILABLE, \* the module-level flag, fixed at import time
    spy,                \* transport spy: number of transport calls recorded so far
    tool,               \* name of the tool invoked last ("none" before any)
    args,               \* its arguments
    calls,              \* the transport calls it made, in order, with their outcomes
    result,             \* the dict it returned (NoResult when nothing was returned)
    propagated          \* <<>>, or <<t>> when an exception with text t left the tool

vars == <<OPENHEXA_AVAILABLE, spy, tool, args, calls, result, propagated>>

----------------------------------------------------------------------------
(* Bounds of the model *)

\* transport calls one behaviour may record in total
MaxTransportCalls == 3
\* longest item list a transport answer carries (besides the scenario page)
MaxItems == 2
\* longest item list a listing call made by search_resources is answered with
MaxSearchItems == 1

----------------------------------------------------------------------------
(* Python helpers *)

None == <<>>
Some(v) == <<v>>

\* dict.get(k, default)
Get(d, k, default) == IF k \in DOMAIN d THEN d[k] ELSE default

Ret(v) == [ret |-> v]
Raise(t) == [exc |-> t]
IsExc(e) == "exc" \in DOMAIN e

\* str(AttributeError) of calling .get on None
NoneTypeHasNoGet == "'NoneType' object has no attribute 'get'"

\* all sequences over S of length at most n
RECURSIVE SeqsUpTo(_, _)
SeqsUpTo(S, n) ==
    IF n = 0 THEN {<<>>}
    ELSE LET shorter == SeqsUpTo(S, n - 1)
         IN  shorter \cup {Append(s, x) : s \in {t \in shorter : Len(t) = n - 1}, x \in S}

\* [f(x) for x in s]
RECURSIVE MapSeq(_, _)
MapSeq(f(_), s) == IF s = <<>> THEN <<>> ELSE <<f(Head(s))>> \o MapSeq(f, Tail(s))

\* [x for x in s if p(x)]
RECURSIVE FilterSeq(_, _)
FilterSeq(p(_), s) ==
    IF s = <<>> THEN <<>>
    ELSE (IF p(Head(s)) THEN <<Head(s)>> ELSE <<>>) \o FilterSeq(p, Tail(s))

\* str.lower(), character by character
LowerChar(c) ==
    CASE c = "A" -> "a"
      [] c = "B" -> "b"
      [] c = "C" -> "c"
      [] c = "E" -> "e"
      [] c = "L" -> "l"
      [] c = "T" -> "t"
      [] OTHER -> c
Lower(s) == [i \in DOMAIN s |-> LowerChar(s[i])]

\* `sub in s` for strings
Contains(sub, s) ==
    \E i \in 0..(Len(s) - Len(sub)) : SubSeq(s, i + 1, i + Len(sub)) = sub

----------------------------------------------------------------------------
(* The transport client and what it may answer *)

\* a call recorded by the transport spy
TransportCall(op, doc, kind, variables, outcome) ==
    [op |-> op, doc |-> doc, kind |-> kind, vars |-> variables, out |-> outcome]

\* texts of the exceptions the transport raises
ExceptionTexts == {"connection refused", "401 Unauthorized"}

\* Pydantic models of the SDK: model_dump() gives the dict of the fields
Model(fields) == [model |-> fields]
model_dump(m) == m.model

Workspace1 == Model([slug |-> "ws1", name |-> <<"A", "b">>, description |-> <<>>])
Workspace2 == Model([slug |-> "ws2", name |-> <<"c">>, description |-> <<"a", "B", "c">>])
WorkspaceModels == {Workspace1, Workspace2}

\* datasets as the SDK lists them: with their workspace, with a null workspace, or
\* as a link that nests the dataset and names no workspace
Dataset1 ==
    Model([id |-> "d1", name |-> <<"A", "b">>, description |-> <<>>,
           workspace |-> Some([slug |-> "ws1"])])
Dataset2 ==
    Model([id |-> "d2", name |-> <<"c">>, description |-> <<"B">>, workspace |-> None])
Dataset3 ==
    Model([id |-> "d3",
           dataset |-> [id |-> "d3", name |-> <<"a">>, description |-> <<"c">>]])
DatasetModels == {Dataset1, Dataset2, Dataset3}

Run1 == Model([id |-> "r1", status |-> "success"])
Run2 == Model([id |-> "r2", status |-> "failed"])
RunModels == {Run1, Run2}

\* a pipeline of the SDK: its fields, and its runs page
PipelineObject(fields, runItems) == [model |-> fields, runs |-> [items |-> runItems]]
Pipeline1Fields == [code |-> "p1", name |-> <<"A", "b">>, description |-> <<>>]
Pipeline2Fields == [code |-> "p2", name |-> <<"c">>, description |-> <<"a">>]
PipelineModels == {Model(Pipeline1Fields), Model(Pipeline2Fields)}
PipelineObjects ==
    {PipelineObject(Pipeline1Fields, r) : r \in SeqsUpTo(RunModels, MaxItems)}

User1 == Model([id |-> "u1", email |-> "ann@example.org"])
User2 == Model([id |-> "u2", email |-> "bob@example.org"])
UserModels == {User1, User2}

\* the answer of the scenario of list_workspaces: five items, three pages in all
ScenarioItems == <<Workspace1, Workspace2, Workspace1, Workspace2, Workspace1>>
ScenarioPage == [items |-> ScenarioItems, total_pages |-> 3]

TotalPagesValues == {1, 3}

\* a page object of the SDK: items and total_pages
PagesOf(models, n, totals) ==
    {[items |-> s, total_pages |-> t] : s \in SeqsUpTo(models, n), t \in totals}

\* GraphQL answers (result.json()) to the two mutations of create_pipeline
GraphQLErrors == [errors |-> <<"permission denied">>]
EmptyDict == <<>>
CreatedPipeline ==
    [id |-> "42", name |-> "etl", code |-> "etl-1", type |-> "zipFile",
     workspace |-> [slug |-> "ws1"]]
CreateResponses ==
    {GraphQLErrors,
     [data |-> EmptyDict],
     [data |-> [createPipeline |-> [success |-> FALSE, errors |-> <<"name taken">>]]],
     [data |-> [createPipeline |-> [success |-> FALSE, errors |-> <<"quota exceeded">>,
                                    pipeline |-> Some(CreatedPipeline)]]],
     [data |-> [createPipeline |-> [success |-> TRUE, errors |-> <<>>, pipeline |-> None]]],
     [data |-> [createPipeline |-> [success |-> TRUE, errors |-> <<>>,
                                    pipeline |-> Some([id |-> "42", name |-> "etl"])]]],
     [data |-> [createPipeline |-> [success |-> TRUE, errors |-> <<>>,
                                    pipeline |-> Some(CreatedPipeline)]]]}
UploadResponses ==
    {GraphQLErrors,
     [data |-> EmptyDict],
     [data |-> [uploadPipeline |-> [success |-> FALSE, errors |-> <<"invalid archive">>]]],
     [data |-> [uploadPipeline |-> [success |-> TRUE, errors |-> <<>>]]]}

\* GraphQL answers to the queries: `errors`, no top-level field, a null top-level
\* field, or the field
Connection1 == [id |-> "c1", name |-> "warehouse", type |-> "POSTGRESQL"]
Connection2 == [id |-> "c2", name |-> "bucket", type |-> "S3"]
ConnectionsResponses ==
    {GraphQLErrors, [data |-> EmptyDict], [data |-> [workspace |-> None]],
     [data |-> [workspace |-> Some([slug |-> "ws1"])]]}
    \cup {[data |-> [workspace |-> Some([connections |-> s])]] :
              s \in SeqsUpTo({Connection1, Connection2}, MaxItems)}

Webapp1 == [id |-> "a1", name |-> "dashboard"]
Webapp2 == [id |-> "a2", name |-> "notebook"]
WebappsResponses ==
    {GraphQLErrors, [data |-> EmptyDict], [data |-> [workspace |-> None]],
     [data |-> [workspace |-> Some([slug |-> "ws1"])]],
     [data |-> [workspace |-> Some([webapps |-> EmptyDict])]]}
    \cup {[data |-> [workspace |-> Some([webapps |->
                 [items |-> s, pageNumber |-> 1, totalItems |-> Len(s) + 10,
                  totalPages |-> t]])]] :
              s \in SeqsUpTo({Webapp1, Webapp2}, MaxItems), t \in {3}}

Version1 == [id |-> "v1", name |-> "first"]
Version2 == [id |-> "v2", name |-> "second"]
VersionsResponses ==
    {GraphQLErrors, [data |-> EmptyDict], [data |-> [dataset |-> None]],
     [data |-> [dataset |-> Some([slug |-> "d1"])]]}
    \cup {[data |-> [dataset |-> Some([versions |-> [items |-> s]])]] :
              s \in SeqsUpTo({Version1, Version2}, MaxItems)}

VersionResponses ==
    {GraphQLErrors, [data |-> EmptyDict], [data |-> [datasetVersion |-> None]],
     [data |-> [datasetVersion |-> Some(Version1)]],
     [data |-> [datasetVersion |-> Some(Version2)]]}

File1 == [id |-> "f1", size |-> 10]
File2 == [id |-> "f2", size |-> 20]
VersionsWithFiles ==
    {[id |-> "v1", name |-> "first", files |-> [items |-> <<File1, File2>>]],
     [id |-> "v2", name |-> "second", files |-> [items |-> <<File2>>]],
     [id |-> "v3", name |-> "third"]}
FilesResponses ==
    {GraphQLErrors, [data |-> EmptyDict], [data |-> [dataset |-> None]],
     [data |-> [dataset |-> Some([slug |-> "d1"])]]}
    \cup {[data |-> [dataset |-> Some([versions |-> [items |-> s]])]] :
              s \in SeqsUpTo(VersionsWithFiles, MaxItems)}

FileResponses ==
    {GraphQLErrors, [data |-> EmptyDict], [data |-> [datasetVersionFile |-> None]],
     [data |-> [datasetVersionFile |-> Some([id |-> "f1", filename |-> "a.csv"])]]}

\* datasets as the GraphQL API lists them, with their creator (who may be null)
Listed1 == [id |-> "d1", name |-> "births", createdBy |-> Some([email |-> "ann@example.org"])]
Listed2 == [id |-> "d2", name |-> "deaths", createdBy |-> Some([email |-> "bob@example.org"])]
Listed3 == [id |-> "d3", name |-> "orphan", createdBy |-> None]
ListedDatasets == {Listed1, Listed2, Listed3}
DatasetsResponses(listed) ==
    {GraphQLErrors, [data |-> EmptyDict], [data |-> [datasets |-> None]],
     [data |-> [datasets |-> Some(EmptyDict)]]}
    \cup {[data |-> [datasets |-> Some([items |-> s, totalItems |-> Len(s) + 20,
                                       totalPages |-> 3])]] :
              s \in SeqsUpTo(listed, MaxItems)}

Sample1 == [sample |-> Some("a,b;1,2"), status |-> Some("FINISHED"), statusReason |-> None]
Sample2 == [sample |-> None, status |-> Some("FAILED"), statusReason |-> Some("too large")]
PreviewResponses ==
    {GraphQLErrors, [data |-> EmptyDict], [data |-> [datasetVersionFile |-> None]],
     [data |-> [datasetVersionFile |-> Some([id |-> "f1"])]]}
    \cup {[data |-> [datasetVersionFile |->
                 Some([id |-> "f1", properties |-> p, fileSample |-> f])]] :
              p \in {None, Some("{rows: 2}")}, f \in {None, Some(Sample1), Some(Sample2)}}

\* what a transport call may do: raise, or return one of `answers`
Outcomes(answers) == {Raise(t) : t \in ExceptionTexts} \cup {Ret(a) : a \in answers}

\* a tool that finds OPENHEXA_AVAILABLE false never reaches the transport
NotCalled == Raise("not called")
Stubbed(outcomes) == IF OPENHEXA_AVAILABLE THEN outcomes ELSE {NotCalled}

----------------------------------------------------------------------------
(* Results *)

NoResult == [none |-> TRUE]

ConfigError ==
    [error |-> <<"OpenHEXA SDK not available. Please configure your OpenHEXA credentials.">>]

\* what running a handler gives: the transport calls made and the dict returned ...
Returned(made, dict) == [calls |-> made, ret |-> dict]
\* ... or the exception that left it
Propagated(made, text) == [calls |-> made, exc |-> text]

----------------------------------------------------------------------------
(* Tools *)

\* page: int = 1, per_page: int = 10
DefaultPage == 1
DefaultPerPage == 10

PageArgs == {1, 2}
PerPageArgs == {5, 10}
SlugArgs == {"ws1", "ws2"}
OptionalSlugArgs == {None, Some("ws1")}
IdArgs == {"d1", "d9"}
PipelineCodeArgs == {"p1"}
VersionIdArgs == {"v1"}
FileIdArgs == {"f1", "f7"}
QueryStrArgs == {"births"}
\* arguments of search_resources: every resource_type, queries that differ from the
\* names in case, with and without a workspace
SearchAll == [query |-> <<"a">>, resource_type |-> None, workspace_slug |-> None]
SearchArgs ==
    {SearchAll,
     [SearchAll EXCEPT !.query = <<"B">>],
     [SearchAll EXCEPT !.query = <<"C">>, !.workspace_slug = Some("ws1")],
     [SearchAll EXCEPT !.resource_type = Some("")],
     [SearchAll EXCEPT !.resource_type = Some("workspace")],
     [SearchAll EXCEPT !.resource_type = Some("dataset")],
     [SearchAll EXCEPT !.resource_type = Some("dataset"), !.query = <<"B">>,
                       !.workspace_slug = Some("ws1")],
     [SearchAll EXCEPT !.resource_type = Some("pipeline"), !.workspace_slug = Some("ws1")],
     [SearchAll EXCEPT !.resource_type = Some("webapp")]}
EmailArgs == {"ann@example.org", "eve@example.org"}
\* (page, per_page) of the paged tools: the defaults' shape and the scenario's
ScenarioPaging == [page |-> 2, per_page |-> 5]
PagingArgs == {[page |-> DefaultPage, per_page |-> DefaultPerPage], ScenarioPaging}

\* arguments of create_pipeline: a complete call, each required argument empty in
\* turn, source text of two bytes per character, source text holding a lone
\* surrogate, and a call with every optional argument given
CreateBase ==
    [workspace_slug |-> "ws1", name |-> "etl", code_content |-> <<120, 61, 49>>,
     description |-> None, functional_type |-> None, tags |-> None]
CreateArgs ==
    {CreateBase,
     [CreateBase EXCEPT !.workspace_slug = ""],
     [CreateBase EXCEPT !.name = ""],
     [CreateBase EXCEPT !.code_content = <<>>],
     [CreateBase EXCEPT !.code_content = <<233>>],
     [CreateBase EXCEPT !.code_content = <<120, 55296>>],
     [CreateBase EXCEPT !.description = Some("nightly load"),
                        !.functional_type = Some(<<"E", "T", "L">>),
                        !.tags = Some(<<"dhis2">>)]}

\* an SDK accessor of one object answers None when there is no such object
Optional(objects) == {None} \cup {Some(x) : x \in objects}

\* list_workspaces reporting the page size asked for as the count
list_workspaces_CountsPerPage(page, per_page, o) ==
    IF ~OPENHEXA_AVAILABLE THEN Returned(<<>>, ConfigError)
    ELSE LET made == <<TransportCall("workspaces", "workspaces", "query",
                                     [page |-> page, per_page |-> per_page], o)>>
         IN  IF IsExc(o) THEN Returned(made, [error |-> <<o.exc>>])
             ELSE Returned(made,
                      [workspaces |-> MapSeq(model_dump, o.ret.items),
                       total_pages |-> o.ret.total_pages,
                       current_page |-> page,
                       per_page |-> per_page,
                       count |-> per_page])

list_workspaces(page, per_page, o) ==
    IF ~OPENHEXA_AVAILABLE THEN Returned(<<>>, ConfigError)
    ELSE LET made == <<TransportCall("workspaces", "workspaces", "query",
                                     [page |-> page, per_page |-> per_page], o)>>
         IN  IF IsExc(o) THEN Returned(made, [error |-> <<o.exc>>])
             ELSE Returned(made,
                      [workspaces |-> MapSeq(model_dump, o.ret.items),
                       total_pages |-> o.ret.total_pages,
                       current_page |-> page,
                       per_page |-> per_page,
                       count |-> Len(o.ret.items)])

\* get_workspace_details asking the transport a second time when the first call raised
get_workspace_details_RetriesOnce(workspace_slug, o) ==
    IF ~OPENHEXA_AVAILABLE THEN Returned(<<>>, ConfigError)
    ELSE LET call == TransportCall("workspace", "workspace", "query",
                                   [slug |-> workspace_slug], o)
         IN  IF IsExc(o) THEN Returned(<<call, call>>, [error |-> <<o.exc>>])
             ELSE IF o.ret # None THEN Returned(<<call>>, model_dump(o.ret[1]))
             ELSE Returned(<<call>>,
                      [error |-> <<"Workspace '", workspace_slug, "' not found">>])

get_workspace_details(workspace_slug, o) ==
    IF ~OPENHEXA_AVAILABLE THEN Returned(<<>>, ConfigError)
    ELSE LET made == <<TransportCall("workspace", "workspace", "query",
                                     [slug |-> workspace_slug], o)>>
         IN  IF IsExc(o) THEN Returned(made, [error |-> <<o.exc>>])
             ELSE IF o.ret # None THEN Returned(made, model_dump(o.ret[1]))
             ELSE Returned(made,
                      [error |-> <<"Workspace '", workspace_slug, "' not found">>])

\* `if workspace_slug:` and the like: None and "" are false
Truthy(optionalString) == optionalString # None /\ optionalString[1] # ""

\* d.get("workspace", {}).get("slug") == workspace_slug, which raises on a null workspace
WorkspaceIsNull(d) == "workspace" \in DOMAIN d /\ d.workspace = None
InWorkspace(d, workspace_slug) ==
    /\ "workspace" \in DOMAIN d
    /\ d.workspace # None
    /\ "slug" \in DOMAIN d.workspace[1]
    /\ Some(d.workspace[1].slug) = workspace_slug

list_datasets(page, per_page, workspace_slug, o) ==
    IF ~OPENHEXA_AVAILABLE THEN Returned(<<>>, ConfigError)
    ELSE LET made == <<TransportCall("datasets", "datasets", "query",
                                     [page |-> page, per_page |-> per_page], o)>>
         IN  IF IsExc(o) THEN Returned(made, [error |-> <<o.exc>>])
             ELSE LET dumped == MapSeq(model_dump, o.ret.items)
                      Keep(d) == InWorkspace(d, workspace_slug)
                      datasets == IF Truthy(workspace_slug)
                                  THEN FilterSeq(Keep, dumped) ELSE dumped
                  IN  IF Truthy(workspace_slug)
                         /\ \E i \in DOMAIN dumped : WorkspaceIsNull(dumped[i])
                      THEN Returned(made, [error |-> <<NoneTypeHasNoGet>>])
                      ELSE Returned(made,
                               [datasets |-> datasets,
                                total_pages |-> o.ret.total_pages,
                                current_page |-> page,
                                per_page |-> per_page,
                                count |-> Len(datasets)])

\* get_dataset_details without its check of OPENHEXA_AVAILABLE
get_dataset_details_Ungated(dataset_id, o) ==
    LET made == <<TransportCall("dataset", "dataset", "query", [id |-> dataset_id], o)>>
    IN  IF IsExc(o) THEN Returned(made, [error |-> <<o.exc>>])
        ELSE IF o.ret # None THEN Returned(made, model_dump(o.ret[1]))
        ELSE Returned(made, [error |-> <<"Dataset with ID '", dataset_id, "' not found">>])

get_dataset_details(dataset_id, o) ==
    IF ~OPENHEXA_AVAILABLE THEN Returned(<<>>, ConfigError)
    ELSE LET made == <<TransportCall("dataset", "dataset", "query", [id |-> dataset_id], o)>>
         IN  IF IsExc(o) THEN Returned(made, [error |-> <<o.exc>>])
             ELSE IF o.ret # None THEN Returned(made, model_dump(o.ret[1]))
             ELSE Returned(made,
                      [error |-> <<"Dataset with ID '", dataset_id, "' not found">>])

list_pipelines(workspace_slug, page, per_page, o) ==
    IF ~OPENHEXA_AVAILABLE THEN Returned(<<>>, ConfigError)
    ELSE LET made == <<TransportCall("pipelines", "pipelines", "query",
                                     [workspace_slug |-> workspace_slug,
                                      page |-> page, per_page |-> per_page], o)>>
         IN  IF IsExc(o) THEN Returned(made, [error |-> <<o.exc>>])
             ELSE Returned(made,
                      [pipelines |-> MapSeq(model_dump, o.ret.items),
                       total_pages |-> o.ret.total_pages,
                       current_page |-> page,
                       per_page |-> per_page,
                       count |-> Len(o.ret.items)])

PipelineNotFound(workspace_slug, pipeline_code) ==
    [error |-> <<"Pipeline '", pipeline_code, "' not found in workspace '",
                 workspace_slug, "'">>]

get_pipeline_details(workspace_slug, pipeline_code, o) ==
    IF ~OPENHEXA_AVAILABLE THEN Returned(<<>>, ConfigError)
    ELSE LET made == <<TransportCall("pipeline", "pipeline", "query",
                                     [workspace_slug |-> workspace_slug,
                                      pipeline_code |-> pipeline_code], o)>>
         IN  IF IsExc(o) THEN Returned(made, [error |-> <<o.exc>>])
             ELSE IF o.ret # None THEN Returned(made, model_dump(o.ret[1]))
             ELSE Returned(made, PipelineNotFound(workspace_slug, pipeline_code))

get_pipeline_runs(workspace_slug, pipeline_code, o) ==
    IF ~OPENHEXA_AVAILABLE THEN Returned(<<>>, ConfigError)
    ELSE LET made == <<TransportCall("pipeline", "pipeline", "query",
                                     [workspace_slug |-> workspace_slug,
                                      pipeline_code |-> pipeline_code], o)>>
         IN  IF IsExc(o) THEN Returned(made, [error |-> <<o.exc>>])
             ELSE IF o.ret # None
             THEN LET runs == o.ret[1].runs
                  IN  Returned(made, [runs |-> MapSeq(model_dump, runs.items),
                                      count |-> Len(runs.items)])
             ELSE Returned(made, PipelineNotFound(workspace_slug, pipeline_code))

\* list_workspace_members giving up, without a call, once the invocation before it
\* returned an error
list_workspace_members_GivesUpAfterError(workspace_slug, o) ==
    IF ~OPENHEXA_AVAILABLE THEN Returned(<<>>, ConfigError)
    ELSE IF "error" \in DOMAIN result
    THEN Returned(<<>>, [error |-> <<"client unavailable">>])
    ELSE LET made == <<TransportCall("get_users", "get_users", "query",
                                     [query |-> "", workspace_slug |-> workspace_slug], o)>>
         IN  IF IsExc(o) THEN Returned(made, [error |-> <<o.exc>>])
             ELSE Returned(made, [members |-> MapSeq(model_dump, o.ret),
                                  count |-> Len(o.ret)])

list_workspace_members(workspace_slug, o) ==
    IF ~OPENHEXA_AVAILABLE THEN Returned(<<>>, ConfigError)
    ELSE LET made == <<TransportCall("get_users", "get_users", "query",
                                     [query |-> "", workspace_slug |-> workspace_slug], o)>>
         IN  IF IsExc(o) THEN Returned(made, [error |-> <<o.exc>>])
             ELSE Returned(made, [members |-> MapSeq(model_dump, o.ret),
                                  count |-> Len(o.ret)])

\* str.encode("utf-8") of one code point; a lone surrogate cannot be encoded
IsSurrogate(cp) == cp >= 55296 /\ cp <= 57343
Utf8(cp) ==
    IF cp < 128 THEN <<cp>>
    ELSE IF cp < 2048 THEN <<192 + (cp \div 64), 128 + (cp % 64)>>
    ELSE IF cp < 65536
    THEN <<224 + (cp \div 4096), 128 + ((cp \div 64) % 64), 128 + (cp % 64)>>
    ELSE <<240 + (cp \div 262144), 128 + ((cp \div 4096) % 64),
           128 + ((cp \div 64) % 64), 128 + (cp % 64)>>
RECURSIVE Utf8Encode(_)
Utf8Encode(text) == IF text = <<>> THEN <<>> ELSE Utf8(Head(text)) \o Utf8Encode(Tail(text))

\* what time.localtime() reads when writestr stamps the member: (year, month, day,
\* hour, minute, second)
Clock == {<<2026, 11, 2, 16, 27, 48>>, <<2026, 11, 2, 16, 27, 51>>}

\* a 16-bit field of the archive, little-endian
LE16(n) == <<n % 256, n \div 256>>
\* the member's time stamp as the archive stores it (two-second resolution)
DosTime(now) == (now[4] * 2048) + (now[5] * 32) + (now[6] \div 2)
DosDate(now) == ((now[1] - 1980) * 512) + (now[2] * 32) + now[3]

\* "pipeline.py", the member name, as bytes
PipelinePy == <<112, 105, 112, 101, 108, 105, 110, 101, 46, 112, 121>>
ZIP_DEFLATED == 8
LocalHeaderSignature == <<80, 75, 3, 4>>
EndRecordSignature == <<80, 75, 5, 6>>

\* the DEFLATE stream of the member, in the format's stored-block form: one final
\* block, LEN, its complement NLEN, the bytes (the entropy coding zlib would choose is
\* not modelled)
Deflate(data) == <<1>> \o LE16(Len(data)) \o LE16(65535 - Len(data)) \o data

\* the bytes zipfile.ZipFile(zip_buffer, "w", ZIP_DEFLATED) leaves in the buffer after
\* writestr("pipeline.py", code_content): one local header (signature, method, time,
\* date, compressed size, size, name length, name), the member's stream, and the end
\* record with the number of entries. Versions, flags, CRC-32 and the central
\* directory's copy of the header are left out.
ZipArchive(code_content, now) ==
    LET data == Utf8Encode(code_content)
        stream == Deflate(data)
    IN  LocalHeaderSignature \o LE16(ZIP_DEFLATED)
        \o LE16(DosTime(now)) \o LE16(DosDate(now))
        \o LE16(Len(stream)) \o LE16(Len(data))
        \o LE16(Len(PipelinePy)) \o PipelinePy
        \o stream
        \o EndRecordSignature \o LE16(1)

Base64Alphabet ==
    <<"A", "B", "C", "D", "E", "F", "G", "H", "I", "J", "K", "L", "M",
      "N", "O", "P", "Q", "R", "S", "T", "U", "V", "W", "X", "Y", "Z",
      "a", "b", "c", "d", "e", "f", "g", "h", "i", "j", "k", "l", "m",
      "n", "o", "p", "q", "r", "s", "t", "u", "v", "w", "x", "y", "z",
      "0", "1", "2", "3", "4", "5", "6", "7", "8", "9", "+", "/">>

\* base64.b64encode that drops a last group of fewer than three bytes
RECURSIVE b64encode_WholeGroupsOnly(_)
b64encode_WholeGroupsOnly(bytes) ==
    IF Len(bytes) < 3 THEN <<>>
    ELSE <<Base64Alphabet[(bytes[1] \div 4) + 1],
           Base64Alphabet[((bytes[1] % 4) * 16) + (bytes[2] \div 16) + 1],
           Base64Alphabet[((bytes[2] % 16) * 4) + (bytes[3] \div 64) + 1],
           Base64Alphabet[(bytes[3] % 64) + 1]>>
         \o b64encode_WholeGroupsOnly(SubSeq(bytes, 4, Len(bytes)))

\* base64.b64encode(zip_bytes).decode("utf-8"): three bytes to four characters, the
\* last group padded with "="
RECURSIVE b64encode(_)
b64encode(bytes) ==
    IF bytes = <<>> THEN <<>>
    ELSE LET n == Len(bytes)
             b1 == bytes[1]
             b2 == IF n >= 2 THEN bytes[2] ELSE 0
             b3 == IF n >= 3 THEN bytes[3] ELSE 0
         IN  <<Base64Alphabet[(b1 \div 4) + 1],
               Base64Alphabet[((b1 % 4) * 16) + (b2 \div 16) + 1],
               IF n >= 2 THEN Base64Alphabet[((b2 % 16) * 4) + (b3 \div 64) + 1] ELSE "=",
               IF n >= 3 THEN Base64Alphabet[(b3 % 64) + 1] ELSE "=">>
             \o (IF n > 3 THEN b64encode(SubSeq(bytes, 4, n)) ELSE <<>>)

_create_pipeline_zipfile(code_content, now) ==
    IF \E i \in DOMAIN code_content : IsSurrogate(code_content[i])
    THEN Raise("'utf-8' codec can't encode character: surrogates not allowed")
    ELSE Ret(b64encode(ZipArchive(code_content, now)))

PartialFailure(message, pipeline) ==
    [error |-> message, pipeline |-> pipeline,
     note |-> "Pipeline was created but code upload failed"]

\* create_input: functionalType and tags are set only when given
CreateInput(a) ==
    [name |-> a.name, workspaceSlug |-> a.workspace_slug]
    @@ (IF a.functional_type # None /\ a.functional_type[1] # <<>>
        THEN [functionalType |-> Lower(a.functional_type[1])] ELSE EmptyDict)
    @@ (IF a.tags # None /\ a.tags[1] # <<>> THEN [tags |-> a.tags[1]] ELSE EmptyDict)

\* create_pipeline going on to the upload whenever the answer carries a pipeline,
\* whatever `success` says
CreateStage_IgnoresSuccess(a, o1, now) ==
    IF a.workspace_slug = "" \/ a.name = "" \/ a.code_content = <<>>
    THEN [done |-> TRUE,
          run |-> Returned(<<>>, [error |-> <<"workspace_slug, name, and code_content are required">>])]
    ELSE
    LET made == <<TransportCall("execute", "createPipeline", "mutation",
                                [input |-> CreateInput(a)], o1)>>
        Fail(message) == [done |-> TRUE, run |-> Returned(made, [error |-> message])]
    IN  IF IsExc(o1) THEN Fail(<<"Failed to create pipeline: ", o1.exc>>)
        ELSE IF "errors" \in DOMAIN o1.ret THEN Fail(<<"GraphQL error: ">> \o o1.ret.errors)
        ELSE
        LET create_result == Get(Get(o1.ret, "data", EmptyDict), "createPipeline", EmptyDict)
        IN  IF Get(create_result, "pipeline", None) = None
            THEN Fail(<<"Failed to create pipeline: ">> \o Get(create_result, "errors", <<>>))
            ELSE
            LET pipeline == create_result.pipeline[1]
                zipped == _create_pipeline_zipfile(a.code_content, now)
            IN  IF "code" \notin DOMAIN pipeline
                THEN Fail(<<"Failed to create pipeline: ", "'code'">>)
                ELSE IF IsExc(zipped)
                THEN [done |-> TRUE,
                      run |-> Returned(made,
                                  PartialFailure(<<"Failed to create ZIP file: ", zipped.exc>>,
                                                 pipeline))]
                ELSE [done |-> FALSE, made |-> made, pipeline |-> pipeline,
                      zipfile_b64 |-> zipped.ret]

\* create_pipeline up to the upload: validation, the createPipeline mutation, packaging.
\* Either the tool is done (with what it returns), or it goes on to upload.
CreateStage(a, o1, now) ==
    IF a.workspace_slug = "" \/ a.name = "" \/ a.code_content = <<>>
    THEN [done |-> TRUE,
          run |-> Returned(<<>>, [error |-> <<"workspace_slug, name, and code_content are required">>])]
    ELSE
    LET made == <<TransportCall("execute", "createPipeline", "mutation",
                                [input |-> CreateInput(a)], o1)>>
        Fail(message) == [done |-> TRUE, run |-> Returned(made, [error |-> message])]
    IN  IF IsExc(o1) THEN Fail(<<"Failed to create pipeline: ", o1.exc>>)
        ELSE IF "errors" \in DOMAIN o1.ret THEN Fail(<<"GraphQL error: ">> \o o1.ret.errors)
        ELSE
        LET create_result == Get(Get(o1.ret, "data", EmptyDict), "createPipeline", EmptyDict)
        IN  IF ~Get(create_result, "success", FALSE)
            THEN Fail(<<"Failed to create pipeline: ">> \o Get(create_result, "errors", <<>>))
            ELSE IF Get(create_result, "pipeline", None) = None
                    \/ DOMAIN create_result.pipeline[1] = {}
            THEN Fail(<<"Pipeline creation succeeded but no pipeline data returned">>)
            ELSE
            LET pipeline == create_result.pipeline[1]
                zipped == _create_pipeline_zipfile(a.code_content, now)
            IN  IF "code" \notin DOMAIN pipeline
                THEN Fail(<<"Failed to create pipeline: ", "'code'">>)
                ELSE IF IsExc(zipped)
                THEN [done |-> TRUE,
                      run |-> Returned(made,
                                  PartialFailure(<<"Failed to create ZIP file: ", zipped.exc>>,
                                                 pipeline))]
                ELSE [done |-> FALSE, made |-> made, pipeline |-> pipeline,
                      zipfile_b64 |-> zipped.ret]

\* upload_input naming the pipeline by the `name` argument, not the code the remote gave
UploadInput_ByArgumentName(a, stage) ==
    [workspaceSlug |-> a.workspace_slug,
     pipelineCode |-> a.name,
     name |-> "Initial version",
     description |-> IF Truthy(a.description) THEN a.description[1] ELSE "Created via MCP",
     zipfile |-> stage.zipfile_b64]

UploadInput(a, stage) ==
    [workspaceSlug |-> a.workspace_slug,
     pipelineCode |-> stage.pipeline.code,
     name |-> "Initial version",
     description |-> IF Truthy(a.description) THEN a.description[1] ELSE "Created via MCP",
     zipfile |-> stage.zipfile_b64]

create_pipeline(a, o1, o2, now) ==
    IF ~OPENHEXA_AVAILABLE THEN Returned(<<>>, ConfigError)
    ELSE
    LET stage == CreateStage(a, o1, now)
    IN  IF stage.done THEN stage.run
        ELSE
        LET made == Append(stage.made,
                           TransportCall("execute", "uploadPipeline", "mutation",
                                         [input |-> UploadInput(a, stage)], o2))
            pipeline == stage.pipeline
        IN  IF IsExc(o2)
            THEN Returned(made, [error |-> <<"Failed to create pipeline: ", o2.exc>>])
            ELSE IF "errors" \in DOMAIN o2.ret
            THEN Returned(made,
                     PartialFailure(<<"GraphQL error during upload: ">> \o o2.ret.errors,
                                    pipeline))
            ELSE
            LET upload_result_data ==
                    Get(Get(o2.ret, "data", EmptyDict), "uploadPipeline", EmptyDict)
            IN  IF ~Get(upload_result_data, "success", FALSE)
                THEN Returned(made,
                         PartialFailure(<<"Failed to upload pipeline code: ">>
                                            \o Get(upload_result_data, "errors", <<>>),
                                        pipeline))
                ELSE Returned(made,
                         [success |-> TRUE, pipeline |-> pipeline,
                          message |-> <<"Pipeline '", a.name,
                                        "' created and code uploaded successfully">>])

\* `if not x:` for a dict that may be null: None and {} are false
Falsy(optionalDict) == optionalDict = None \/ DOMAIN optionalDict[1] = {}

\* list_connections sending its document as a mutation
list_connections_AsMutation(workspace_slug, o) ==
    IF ~OPENHEXA_AVAILABLE THEN Returned(<<>>, ConfigError)
    ELSE
    LET made == <<TransportCall("execute", "WorkspaceConnections", "mutation",
                                [slug |-> workspace_slug], o)>>
    IN  IF IsExc(o) THEN Returned(made, [error |-> <<"Failed to list connections: ", o.exc>>])
        ELSE IF "errors" \in DOMAIN o.ret
        THEN Returned(made, [error |-> <<"GraphQL error: ">> \o o.ret.errors])
        ELSE
        LET workspace == Get(Get(o.ret, "data", EmptyDict), "workspace", None)
        IN  IF Falsy(workspace)
            THEN Returned(made, [error |-> <<"Workspace '", workspace_slug, "' not found">>])
            ELSE LET connections == Get(workspace[1], "connections", <<>>)
                 IN  Returned(made, [connections |-> connections,
                                     count |-> Len(connections)])

list_connections(workspace_slug, o) ==
    IF ~OPENHEXA_AVAILABLE THEN Returned(<<>>, ConfigError)
    ELSE
    LET made == <<TransportCall("execute", "WorkspaceConnections", "query",
                                [slug |-> workspace_slug], o)>>
    IN  IF IsExc(o) THEN Returned(made, [error |-> <<"Failed to list connections: ", o.exc>>])
        ELSE IF "errors" \in DOMAIN o.ret
        THEN Returned(made, [error |-> <<"GraphQL error: ">> \o o.ret.errors])
        ELSE
        LET workspace == Get(Get(o.ret, "data", EmptyDict), "workspace", None)
        IN  IF Falsy(workspace)
            THEN Returned(made, [error |-> <<"Workspace '", workspace_slug, "' not found">>])
            ELSE LET connections == Get(workspace[1], "connections", <<>>)
                 IN  Returned(made, [connections |-> connections,
                                     count |-> Len(connections)])

list_webapps(workspace_slug, page, per_page, o) ==
    IF ~OPENHEXA_AVAILABLE THEN Returned(<<>>, ConfigError)
    ELSE
    LET made == <<TransportCall("execute", "WorkspaceWebapps", "query",
                                [slug |-> workspace_slug, page |-> page,
                                 perPage |-> per_page], o)>>
    IN  IF IsExc(o) THEN Returned(made, [error |-> <<"Failed to list webapps: ", o.exc>>])
        ELSE IF "errors" \in DOMAIN o.ret
        THEN Returned(made, [error |-> <<"GraphQL error: ">> \o o.ret.errors])
        ELSE
        LET workspace == Get(Get(o.ret, "data", EmptyDict), "workspace", None)
        IN  IF Falsy(workspace)
            THEN Returned(made, [error |-> <<"Workspace '", workspace_slug, "' not found">>])
            ELSE LET webapps_data == Get(workspace[1], "webapps", EmptyDict)
                 IN  Returned(made,
                         [webapps |-> Get(webapps_data, "items", <<>>),
                          total_pages |-> Get(webapps_data, "totalPages", 0),
                          total_items |-> Get(webapps_data, "totalItems", 0),
                          current_page |-> Get(webapps_data, "pageNumber", page)])

list_dataset_versions(dataset_id, o) ==
    IF ~OPENHEXA_AVAILABLE THEN Returned(<<>>, ConfigError)
    ELSE
    LET made == <<TransportCall("execute", "getDataset", "query", [id |-> dataset_id], o)>>
    IN  IF IsExc(o)
        THEN Returned(made, [error |-> <<"Failed to list dataset versions: ", o.exc>>])
        ELSE IF "errors" \in DOMAIN o.ret
        THEN Returned(made, [error |-> <<"GraphQL error: ">> \o o.ret.errors])
        ELSE
        LET dataset == Get(Get(o.ret, "data", EmptyDict), "dataset", None)
        IN  IF Falsy(dataset)
            THEN Returned(made, [error |-> <<"Dataset '", dataset_id, "' not found">>])
            ELSE LET versions == Get(Get(dataset[1], "versions", EmptyDict), "items", <<>>)
                 IN  Returned(made, [versions |-> versions, count |-> Len(versions)])

get_dataset_version_details(version_id, o) ==
    IF ~OPENHEXA_AVAILABLE THEN Returned(<<>>, ConfigError)
    ELSE
    LET made == <<TransportCall("execute", "getDatasetVersion", "query",
                                [id |-> version_id], o)>>
    IN  IF IsExc(o)
        THEN Returned(made, [error |-> <<"Failed to get dataset version details: ", o.exc>>])
        ELSE IF "errors" \in DOMAIN o.ret
        THEN Returned(made, [error |-> <<"GraphQL error: ">> \o o.ret.errors])
        ELSE
        LET version == Get(Get(o.ret, "data", EmptyDict), "datasetVersion", None)
        IN  IF Falsy(version)
            THEN Returned(made,
                     [error |-> <<"Dataset version '", version_id, "' not found">>])
            ELSE Returned(made, [version |-> version[1]])

\* {**file, "version_id": version["id"], "version_name": version["name"]}
FileOfVersion(file, version) ==
    [version_id |-> version.id, version_name |-> version.name] @@ file
RECURSIVE FilesOfVersions(_)
FilesOfVersions(versions) ==
    IF versions = <<>> THEN <<>>
    ELSE LET version == Head(versions)
             files == Get(Get(version, "files", EmptyDict), "items", <<>>)
         IN  [i \in DOMAIN files |-> FileOfVersion(files[i], version)]
             \o FilesOfVersions(Tail(versions))

list_dataset_files(dataset_id, o) ==
    IF ~OPENHEXA_AVAILABLE THEN Returned(<<>>, ConfigError)
    ELSE
    LET made == <<TransportCall("execute", "getDataset", "query", [id |-> dataset_id], o)>>
    IN  IF IsExc(o)
        THEN Returned(made, [error |-> <<"Failed to list dataset files: ", o.exc>>])
        ELSE IF "errors" \in DOMAIN o.ret
        THEN Returned(made, [error |-> <<"GraphQL error: ">> \o o.ret.errors,
                             raw |-> o.ret])
        ELSE
        LET dataset == Get(Get(o.ret, "data", EmptyDict), "dataset", None)
        IN  IF Falsy(dataset)
            THEN Returned(made, [error |-> <<"Dataset '", dataset_id, "' not found">>])
            ELSE LET files == FilesOfVersions(
                                  Get(Get(dataset[1], "versions", EmptyDict), "items", <<>>))
                 IN  Returned(made, [files |-> files, count |-> Len(files)])

get_dataset_file_details(file_id, o) ==
    IF ~OPENHEXA_AVAILABLE THEN Returned(<<>>, ConfigError)
    ELSE
    LET made == <<TransportCall("execute", "getFile", "query", [id |-> file_id], o)>>
    IN  IF IsExc(o) THEN Returned(made, [error |-> <<"Failed to get file details: ", o.exc>>])
        ELSE IF "errors" \in DOMAIN o.ret
        THEN Returned(made, [error |-> <<"GraphQL error: ">> \o o.ret.errors])
        ELSE
        LET file == Get(Get(o.ret, "data", EmptyDict), "datasetVersionFile", None)
        IN  IF Falsy(file)
            THEN Returned(made, [error |-> <<"File '", file_id, "' not found">>])
            ELSE Returned(made, [file |-> file[1]])

search_datasets(query_str, page, per_page, o) ==
    IF ~OPENHEXA_AVAILABLE THEN Returned(<<>>, ConfigError)
    ELSE
    LET made == <<TransportCall("execute", "searchDatasets", "query",
                                [query |-> query_str, page |-> page,
                                 perPage |-> per_page], o)>>
    IN  IF IsExc(o) THEN Returned(made, [error |-> <<"Failed to search datasets: ", o.exc>>])
        ELSE IF "errors" \in DOMAIN o.ret
        THEN Returned(made, [error |-> <<"GraphQL error: ">> \o o.ret.errors])
        ELSE
        \* .get("datasets", {}): {} when the key is missing, None when it is null
        LET datasets_info == Get(Get(o.ret, "data", EmptyDict), "datasets", Some(EmptyDict))
        IN  IF datasets_info = None
            THEN Returned(made,
                     [error |-> <<"Failed to search datasets: ", NoneTypeHasNoGet>>])
            ELSE LET datasets == Get(datasets_info[1], "items", <<>>)
                 IN  Returned(made,
                         [datasets |-> datasets,
                          count |-> Len(datasets),
                          total_items |-> Get(datasets_info[1], "totalItems", 0),
                          total_pages |-> Get(datasets_info[1], "totalPages", 0),
                          current_page |-> page,
                          per_page |-> per_page])

\* d.get("createdBy", {}).get("email") == creator_email, which raises on a null creator
CreatorIsNull(d) == "createdBy" \in DOMAIN d /\ d.createdBy = None
CreatedBy(d, creator_email) ==
    /\ "createdBy" \in DOMAIN d
    /\ d.createdBy # None
    /\ "email" \in DOMAIN d.createdBy[1]
    /\ d.createdBy[1].email = creator_email

list_datasets_by_creator(creator_email, page, per_page, o) ==
    IF ~OPENHEXA_AVAILABLE THEN Returned(<<>>, ConfigError)
    ELSE
    LET made == <<TransportCall("execute", "datasetsByCreator", "query",
                                [page |-> page, perPage |-> per_page], o)>>
        Failed(text) ==
            Returned(made, [error |-> <<"Failed to list datasets by creator: ", text>>])
    IN  IF IsExc(o) THEN Failed(o.exc)
        ELSE IF "errors" \in DOMAIN o.ret
        THEN Returned(made, [error |-> <<"GraphQL error: ">> \o o.ret.errors])
        ELSE
        LET datasets_info == Get(Get(o.ret, "data", EmptyDict), "datasets", Some(EmptyDict))
        IN  IF datasets_info = None THEN Failed(NoneTypeHasNoGet)
            ELSE LET datasets == Get(datasets_info[1], "items", <<>>)
                     Keep(d) == CreatedBy(d, creator_email)
                     filtered == FilterSeq(Keep, datasets)
                 IN  IF \E i \in DOMAIN datasets : CreatorIsNull(datasets[i])
                     THEN Failed(NoneTypeHasNoGet)
                     ELSE Returned(made,
                              [datasets |-> filtered,
                               count |-> Len(filtered),
                               current_page |-> page,
                               per_page |-> per_page])

\* preview_dataset_file reading the reason under the name it returns it under
preview_dataset_file_SnakeCaseReason(file_id, o) ==
    IF ~OPENHEXA_AVAILABLE THEN Returned(<<>>, ConfigError)
    ELSE
    LET made == <<TransportCall("execute", "GetDatasetVersionFileSample", "query",
                                [id |-> file_id], o)>>
    IN  IF IsExc(o) THEN Returned(made, [error |-> <<"Failed to preview file: ", o.exc>>])
        ELSE IF "errors" \in DOMAIN o.ret
        THEN Returned(made, [error |-> <<"GraphQL error: ">> \o o.ret.errors,
                             raw |-> o.ret])
        ELSE
        LET file_data == Get(Get(o.ret, "data", EmptyDict), "datasetVersionFile", None)
        IN  IF Falsy(file_data)
            THEN Returned(made, [error |-> <<"File '", file_id, "' not found">>])
            ELSE LET sample_info == Get(file_data[1], "fileSample", None)
                     Field(k) == IF Falsy(sample_info) THEN None
                                 ELSE Get(sample_info[1], k, None)
                 IN  Returned(made,
                         [file_id |-> file_id,
                          sample |-> Field("sample"),
                          status |-> Field("status"),
                          status_reason |-> Field("status_reason"),
                          properties |-> Get(file_data[1], "properties", None)])

preview_dataset_file(file_id, o) ==
    IF ~OPENHEXA_AVAILABLE THEN Returned(<<>>, ConfigError)
    ELSE
    LET made == <<TransportCall("execute", "GetDatasetVersionFileSample", "query",
                                [id |-> file_id], o)>>
    IN  IF IsExc(o) THEN Returned(made, [error |-> <<"Failed to preview file: ", o.exc>>])
        ELSE IF "errors" \in DOMAIN o.ret
        THEN Returned(made, [error |-> <<"GraphQL error: ">> \o o.ret.errors,
                             raw |-> o.ret])
        ELSE
        LET file_data == Get(Get(o.ret, "data", EmptyDict), "datasetVersionFile", None)
        IN  IF Falsy(file_data)
            THEN Returned(made, [error |-> <<"File '", file_id, "' not found">>])
            ELSE LET sample_info == Get(file_data[1], "fileSample", None)
                     Field(k) == IF Falsy(sample_info) THEN None
                                 ELSE Get(sample_info[1], k, None)
                 IN  Returned(made,
                         [file_id |-> file_id,
                          sample |-> Field("sample"),
                          status |-> Field("status"),
                          status_reason |-> Field("statusReason"),
                          properties |-> Get(file_data[1], "properties", None)])

\* query.lower() in x.get("name", "").lower() or ... in x.get("description", "").lower()
Matches(query, x) ==
    \/ Contains(Lower(query), Lower(Get(x, "name", <<>>)))
    \/ Contains(Lower(query), Lower(Get(x, "description", <<>>)))

Tagged(type, resources) == [i \in DOMAIN resources |-> [type |-> type, resource |-> resources[i]]]

\* search_resources ignoring resource_type
Searches_Everything(resource_type, type) == TRUE

\* `not resource_type or resource_type == type`
Searches(resource_type, type) == ~Truthy(resource_type) \/ resource_type = Some(type)

\* the part of search_resources for one resource type: the listing tool is called
\* as a plain function; its items are searched if its result has a true "success"
SearchPart(resource_type, type, listing, key, query) ==
    IF ~Searches(resource_type, type) THEN [calls |-> <<>>, found |-> <<>>]
    ELSE IF ~Get(listing.ret, "success", FALSE) THEN [calls |-> listing.calls, found |-> <<>>]
    ELSE LET Unnest(x) == IF type = "dataset" THEN Get(x, "dataset", x) ELSE x
             IsMatch(x) == Matches(query, x)
             items == MapSeq(Unnest, Get(listing.ret, key, <<>>))
         IN  [calls |-> listing.calls, found |-> Tagged(type, FilterSeq(IsMatch, items))]

search_resources(query, resource_type, workspace_slug, ow, od, op) ==
    IF ~OPENHEXA_AVAILABLE THEN Returned(<<>>, ConfigError)
    ELSE
    LET w == SearchPart(resource_type, "workspace",
                        list_workspaces(DefaultPage, DefaultPerPage, ow),
                        "workspaces", query)
        d == SearchPart(resource_type, "dataset",
                        list_datasets(DefaultPage, DefaultPerPage, workspace_slug, od),
                        "datasets", query)
        p == SearchPart(resource_type, "pipeline",
                        list_pipelines(workspace_slug, DefaultPage, DefaultPerPage, op),
                        "pipelines", query)
        results == w.found \o d.found \o p.found
    IN  Returned(w.calls \o d.calls \o p.calls,
                 [success |-> TRUE, query |-> query, results |-> results,
                  count |-> Len(results)])

----------------------------------------------------------------------------
(* Actions: one per tool *)

Invoke(name, arguments, run) ==
    /\ spy + Len(run.calls) <= MaxTransportCalls
    /\ tool' = name
    /\ args' = arguments
    /\ calls' = run.calls
    /\ spy' = spy + Len(run.calls)
    /\ result' = IF IsExc(run) THEN NoResult ELSE run.ret
    /\ propagated' = IF IsExc(run) THEN Some(run.exc) ELSE None
    /\ UNCHANGED OPENHEXA_AVAILABLE

ListWorkspaces ==
    \E page \in PageArgs, per_page \in PerPageArgs,
       o \in Stubbed(Outcomes(PagesOf(WorkspaceModels, MaxItems, TotalPagesValues)
                             \cup {ScenarioPage})) :
        Invoke("list_workspaces", [page |-> page, per_page |-> per_page],
               list_workspaces(page, per_page, o))

GetWorkspaceDetails ==
    \E workspace_slug \in SlugArgs, o \in Stubbed(Outcomes(Optional(WorkspaceModels))) :
        Invoke("get_workspace_details", [workspace_slug |-> workspace_slug],
               get_workspace_details(workspace_slug, o))

ListDatasets ==
    \E paging \in {ScenarioPaging}, workspace_slug \in OptionalSlugArgs,
       o \in Stubbed(Outcomes(PagesOf(DatasetModels, MaxItems, {3}))) :
        Invoke("list_datasets",
               [page |-> paging.page, per_page |-> paging.per_page,
                workspace_slug |-> workspace_slug],
               list_datasets(paging.page, paging.per_page, workspace_slug, o))

GetDatasetDetails ==
    \E dataset_id \in IdArgs, o \in Stubbed(Outcomes(Optional(DatasetModels))) :
        Invoke("get_dataset_details", [dataset_id |-> dataset_id],
               get_dataset_details(dataset_id, o))

ListPipelines ==
    \E workspace_slug \in {"ws1"}, paging \in PagingArgs,
       o \in Stubbed(Outcomes(PagesOf(PipelineModels, MaxItems, {3}))) :
        Invoke("list_pipelines",
               [workspace_slug |-> workspace_slug, page |-> paging.page,
                per_page |-> paging.per_page],
               list_pipelines(workspace_slug, paging.page, paging.per_page, o))

GetPipelineDetails ==
    \E workspace_slug \in SlugArgs, pipeline_code \in PipelineCodeArgs,
       o \in Stubbed(Outcomes(Optional({PipelineObject(Pipeline1Fields, <<Run1>>),
                                         PipelineObject(Pipeline2Fields, <<>>)}))) :
        Invoke("get_pipeline_details",
               [workspace_slug |-> workspace_slug, pipeline_code |-> pipeline_code],
               get_pipeline_details(workspace_slug, pipeline_code, o))

GetPipelineRuns ==
    \E workspace_slug \in SlugArgs, pipeline_code \in PipelineCodeArgs,
       o \in Stubbed(Outcomes(Optional(PipelineObjects))) :
        Invoke("get_pipeline_runs",
               [workspace_slug |-> workspace_slug, pipeline_code |-> pipeline_code],
               get_pipeline_runs(workspace_slug, pipeline_code, o))

ListWorkspaceMembers ==
    \E workspace_slug \in SlugArgs, o \in Stubbed(Outcomes(SeqsUpTo(UserModels, MaxItems))) :
        Invoke("list_workspace_members", [workspace_slug |-> workspace_slug],
               list_workspace_members(workspace_slug, o))

CreatePipeline ==
    \E a \in CreateArgs, o1 \in Stubbed(Outcomes(CreateResponses)), now \in Clock :
        \E o2 \in IF OPENHEXA_AVAILABLE /\ ~CreateStage(a, o1, now).done
                   THEN Outcomes(UploadResponses) ELSE {NotCalled} :
            Invoke("create_pipeline", a, create_pipeline(a, o1, o2, now))

ListConnections ==
    \E workspace_slug \in SlugArgs, o \in Stubbed(Outcomes(ConnectionsResponses)) :
        Invoke("list_connections", [workspace_slug |-> workspace_slug],
               list_connections(workspace_slug, o))

ListWebapps ==
    \E workspace_slug \in {"ws1"}, paging \in PagingArgs,
       o \in Stubbed(Outcomes(WebappsResponses)) :
        Invoke("list_webapps",
               [workspace_slug |-> workspace_slug, page |-> paging.page,
                per_page |-> paging.per_page],
               list_webapps(workspace_slug, paging.page, paging.per_page, o))

ListDatasetVersions ==
    \E dataset_id \in IdArgs, o \in Stubbed(Outcomes(VersionsResponses)) :
        Invoke("list_dataset_versions", [dataset_id |-> dataset_id],
               list_dataset_versions(dataset_id, o))

GetDatasetVersionDetails ==
    \E version_id \in VersionIdArgs, o \in Stubbed(Outcomes(VersionResponses)) :
        Invoke("get_dataset_version_details", [version_id |-> version_id],
               get_dataset_version_details(version_id, o))

ListDatasetFiles ==
    \E dataset_id \in {"d1"}, o \in Stubbed(Outcomes(FilesResponses)) :
        Invoke("list_dataset_files", [dataset_id |-> dataset_id],
               list_dataset_files(dataset_id, o))

GetDatasetFileDetails ==
    \E file_id \in FileIdArgs, o \in Stubbed(Outcomes(FileResponses)) :
        Invoke("get_dataset_file_details", [file_id |-> file_id],
               get_dataset_file_details(file_id, o))

SearchDatasets ==
    \E query_str \in QueryStrArgs, paging \in PagingArgs,
       o \in Stubbed(Outcomes(DatasetsResponses({Listed1, Listed2}))) :
        Invoke("search_datasets",
               [query_str |-> query_str, page |-> paging.page, per_page |-> paging.per_page],
               search_datasets(query_str, paging.page, paging.per_page, o))

ListDatasetsByCreator ==
    \E creator_email \in EmailArgs, paging \in {ScenarioPaging},
       o \in Stubbed(Outcomes(DatasetsResponses(ListedDatasets))) :
        Invoke("list_datasets_by_creator",
               [creator_email |-> creator_email, page |-> paging.page,
                per_page |-> paging.per_page],
               list_datasets_by_creator(creator_email, paging.page, paging.per_page, o))

PreviewDatasetFile ==
    \E file_id \in FileIdArgs, o \in Stubbed(Outcomes(PreviewResponses)) :
        Invoke("preview_dataset_file", [file_id |-> file_id],
               preview_dataset_file(file_id, o))

\* what a listing call made by search_resources may be answered
SearchOutcomes(resource_type, type, models) ==
    IF OPENHEXA_AVAILABLE /\ Searches(resource_type, type)
    THEN {Raise("connection refused")}
         \cup {Ret(a) : a \in PagesOf(models, MaxSearchItems, {1})}
    ELSE {NotCalled}

SearchResources ==
    \E a \in SearchArgs :
        \E ow \in SearchOutcomes(a.resource_type, "workspace", {Workspace1}),
           od \in SearchOutcomes(a.resource_type, "dataset", {Dataset1, Dataset3}),
           op \in SearchOutcomes(a.resource_type, "pipeline", {Model(Pipeline2Fields)}) :
            Invoke("search_resources", a,
                   search_resources(a.query, a.resource_type, a.workspace_slug, ow, od, op))

Init ==
    /\ OPENHEXA_AVAILABLE \in BOOLEAN
    /\ spy = 0
    /\ tool = "none"
    /\ args = [none |-> TRUE]
    /\ calls = <<>>
    /\ result = NoResult
    /\ propagated = None

Next ==
    \/ ListWorkspaces
    \/ GetWorkspaceDetails
    \/ ListDatasets
    \/ GetDatasetDetails
    \/ ListPipelines
    \/ GetPipelineDetails
    \/ GetPipelineRuns
    \/ ListWorkspaceMembers
    \/ CreatePipeline
    \/ ListConnections
    \/ ListWebapps
    \/ ListDatasetVersions
    \/ GetDatasetVersionDetails
    \/ ListDatasetFiles
    \/ GetDatasetFileDetails
    \/ SearchDatasets
    \/ ListDatasetsByCreator
    \/ PreviewDatasetFile
    \/ SearchResources

Spec == Init /\ [][Next]_vars

----------------------------------------------------------------------------
(* Properties *)

Invoked(name) == tool = name
\* the answer the transport gave to the i-th call of the last invocation
Answered(i) == i \in DOMAIN calls /\ ~IsExc(calls[i].out)
IsErrorOnly == propagated = None /\ DOMAIN result = {"error"}
\* every part of `texts` occurs in the message
Mentions(message, texts) ==
    \A i \in DOMAIN texts : \E j \in DOMAIN message : message[j] = texts[i]

\* C1: without configuration every tool returns exactly the configuration error and
\* the transport spy has recorded no call, whatever tools were invoked before.
C1_NoConfigurationNoCall ==
    ~OPENHEXA_AVAILABLE =>
        /\ spy = 0
        /\ calls = <<>>
        /\ ~Invoked("none") => (propagated = None /\ result = ConfigError)

C1_Witness ==
    /\ ~OPENHEXA_AVAILABLE
    /\ Invoked("search_resources")
    /\ result = ConfigError

\* C2: whenever a transport call of the last invocation raised, the tool returned a dict
\* with an `error` message that contains the exception's text, and raised nothing.
C2_TransportErrorIsReturned ==
    \A i \in DOMAIN calls :
        IsExc(calls[i].out) =>
            /\ propagated = None
            /\ "error" \in DOMAIN result
            /\ Mentions(result.error, <<calls[i].out.exc>>)

\* what the createPipeline mutation answered, and whether it reports a failure
CreateResult(response) == Get(Get(response, "data", EmptyDict), "createPipeline", EmptyDict)
CreationFailed(response) ==
    \/ "errors" \in DOMAIN response
    \/ ~Get(CreateResult(response), "success", FALSE)
    \/ Get(CreateResult(response), "pipeline", None) = None
ReportedErrors(response) ==
    IF "errors" \in DOMAIN response THEN response.errors
    ELSE Get(CreateResult(response), "errors", <<>>)

\* C3: when the createPipeline mutation reports a failure (GraphQL errors, success
\* false, or no pipeline object), create_pipeline made that one call only, never the
\* upload, and returned an error that carries the reported errors.
C3_NoUploadAfterFailedCreation ==
    (Invoked("create_pipeline") /\ Answered(1) /\ CreationFailed(calls[1].out.ret)) =>
        /\ Len(calls) = 1
        /\ \A i \in DOMAIN calls : calls[i].doc # "uploadPipeline"
        /\ IsErrorOnly
        /\ Mentions(result.error, ReportedErrors(calls[1].out.ret))

C3_Witness ==
    /\ Invoked("create_pipeline")
    /\ Answered(1)
    /\ "data" \in DOMAIN calls[1].out.ret
    /\ CreateResult(calls[1].out.ret) =
           [success |-> FALSE, errors |-> <<"quota exceeded">>,
            pipeline |-> Some(CreatedPipeline)]
    /\ result = [error |-> <<"Failed to create pipeline: ", "quota exceeded">>]

\* the creation step of the last create_pipeline succeeded with a usable pipeline
CreationSucceeded ==
    /\ Invoked("create_pipeline")
    /\ Answered(1)
    /\ ~CreationFailed(calls[1].out.ret)
    /\ "code" \in DOMAIN CreateResult(calls[1].out.ret).pipeline[1]
\* ... and then packaging or the upload failed
UploadFailed ==
    \/ \E i \in DOMAIN args.code_content : IsSurrogate(args.code_content[i])
    \/ /\ Len(calls) = 2
       /\ \/ IsExc(calls[2].out)
          \/ "errors" \in DOMAIN calls[2].out.ret
          \/ ~Get(Get(Get(calls[2].out.ret, "data", EmptyDict), "uploadPipeline", EmptyDict),
                  "success", FALSE)

\* C4: when creation succeeded and the upload failed in any way, the result holds an
\* `error`, the `pipeline` the creation step returned, and the note that the pipeline
\* was created without code.
C4_PartialFailureKeepsPipeline ==
    (CreationSucceeded /\ UploadFailed) =>
        /\ propagated = None
        /\ DOMAIN result = {"error", "pipeline", "note"}
        /\ result.pipeline = CreateResult(calls[1].out.ret).pipeline[1]

\* the key each listing tool returns its list under
ListingTools ==
    {"list_workspaces", "list_datasets", "list_pipelines", "list_webapps",
     "list_connections", "list_dataset_versions", "list_dataset_files",
     "search_datasets", "list_datasets_by_creator"}
ResourceKey(name) ==
    CASE name = "list_workspaces" -> "workspaces"
      [] name = "list_datasets" -> "datasets"
      [] name = "list_pipelines" -> "pipelines"
      [] name = "list_webapps" -> "webapps"
      [] name = "list_connections" -> "connections"
      [] name = "list_dataset_versions" -> "versions"
      [] name = "list_dataset_files" -> "files"
      [] name = "search_datasets" -> "datasets"
      [] name = "list_datasets_by_creator" -> "datasets"

\* C5: a listing tool that returns its resource list returns a `count` with it, equal
\* to the length of that list.
C5_CountIsLengthOfList ==
    (tool \in ListingTools /\ ResourceKey(tool) \in DOMAIN result) =>
        /\ "count" \in DOMAIN result
        /\ result.count = Len(result[ResourceKey(tool)])

\* the partial failure of create_pipeline: an error together with the created pipeline
IsPartialFailure == Invoked("create_pipeline") /\ "pipeline" \in DOMAIN result

\* C6: a failure result, other than the partial failure of create_pipeline, has the
\* single key `error`.
C6_FailureHasOnlyErrorKey ==
    ("error" \in DOMAIN result /\ ~IsPartialFailure) => DOMAIN result = {"error"}

\* the top-level field of the GraphQL answer each reading tool looks at
GraphQLReaders ==
    {"list_connections", "list_webapps", "list_dataset_versions",
     "get_dataset_version_details", "list_dataset_files", "get_dataset_file_details",
     "search_datasets", "list_datasets_by_creator", "preview_dataset_file"}
TopLevelField(name) ==
    CASE name \in {"list_connections", "list_webapps"} -> "workspace"
      [] name \in {"list_dataset_versions", "list_dataset_files"} -> "dataset"
      [] name = "get_dataset_version_details" -> "datasetVersion"
      [] name \in {"get_dataset_file_details", "preview_dataset_file"} -> "datasetVersionFile"
      [] name \in {"search_datasets", "list_datasets_by_creator"} -> "datasets"
ResourceAbsent(response, field) ==
    /\ "errors" \notin DOMAIN response
    /\ \/ field \notin DOMAIN Get(response, "data", EmptyDict)
       \/ response.data[field] = None

\* C7: when the answer has no `errors` and its top-level resource is null or missing,
\* the reading tool returns an error, never a success envelope.
C7_AbsentResourceIsAnError ==
    (tool \in GraphQLReaders /\ Answered(1)
        /\ ResourceAbsent(calls[1].out.ret, TopLevelField(tool))) => IsErrorOnly

\* the matches search_resources is to report for one listing call: the items of the
\* page as the listing tool returns them, searched by name and description
IsSearchOfAll ==
    /\ Invoked("search_resources")
    /\ ~Truthy(args.resource_type)
    /\ Len(calls) = 3
    /\ \A i \in 1..3 : Answered(i)
ExpectedMatches(i, type) ==
    LET dumped == MapSeq(model_dump, calls[i].out.ret.items)
        InArgsWorkspace(d) == InWorkspace(d, args.workspace_slug)
        listed == IF type = "dataset" /\ Truthy(args.workspace_slug)
                  THEN FilterSeq(InArgsWorkspace, dumped) ELSE dumped
        Unnest(x) == IF type = "dataset" THEN Get(x, "dataset", x) ELSE x
        IsMatch(x) == Matches(args.query, x)
    IN  Tagged(type, FilterSeq(IsMatch, MapSeq(Unnest, listed)))

\* C8: search_resources without resource_type calls the workspace, dataset and
\* pipeline listings in that order and, when they succeed, returns the matching items
\* of the three pages, tagged, in that order, with `count` their number.
C8_SearchReturnsMatches ==
    (Invoked("search_resources") /\ OPENHEXA_AVAILABLE /\ ~Truthy(args.resource_type)) =>
        /\ <<calls[1].op, calls[2].op, calls[3].op>> = <<"workspaces", "datasets", "pipelines">>
        /\ IsSearchOfAll =>
              /\ result.results = ExpectedMatches(1, "workspace")
                                      \o ExpectedMatches(2, "dataset")
                                      \o ExpectedMatches(3, "pipeline")
              /\ result.count = Len(result.results)

\* C9: search_resources with resource_type "dataset" calls the dataset listing only,
\* and every entry it returns is tagged "dataset" and matches the query.
C9_DatasetSearchIsScoped ==
    (Invoked("search_resources") /\ OPENHEXA_AVAILABLE
        /\ args.resource_type = Some("dataset")) =>
        /\ \A i \in DOMAIN calls : calls[i].op \notin {"workspaces", "pipelines"}
        /\ Len(calls) = 1 /\ calls[1].op = "datasets"
        /\ propagated = None
        /\ \A i \in DOMAIN result.results :
              /\ result.results[i].type = "dataset"
              /\ Matches(args.query, result.results[i].resource)

C9_Witness ==
    /\ Invoked("search_resources")
    /\ args.resource_type = Some("dataset")
    /\ Answered(1)
    /\ calls[1].out.ret.items = <<Dataset1>>
    /\ "results" \in DOMAIN result

\* C10: list_workspaces(page, per_page), answered n items and total_pages t, returns
\* exactly workspaces (the n items, in order), total_pages t, current_page page,
\* per_page per_page and count n.
C10_ListWorkspacesEnvelope ==
    (Invoked("list_workspaces") /\ Answered(1)) =>
        LET answer == calls[1].out.ret
        IN  /\ propagated = None
            /\ DOMAIN result =
                   {"workspaces", "total_pages", "current_page", "per_page", "count"}
            /\ result.current_page = args.page
            /\ result.per_page = args.per_page
            /\ result.total_pages = answer.total_pages
            /\ result.count = Len(answer.items)
            /\ Len(result.workspaces) = Len(answer.items)
            /\ \A i \in DOMAIN answer.items : result.workspaces[i] = answer.items[i].model

C10_Witness ==
    /\ Invoked("list_workspaces")
    /\ args = [page |-> 2, per_page |-> 5]
    /\ Answered(1)
    /\ calls[1].out.ret = ScenarioPage
    /\ result.count = 5
    /\ result.total_pages = 3
    /\ Len(result.workspaces) = 5

\* the file the last preview_dataset_file was answered, when there is one
PreviewAnswered ==
    /\ Invoked("preview_dataset_file")
    /\ Answered(1)
    /\ ~ResourceAbsent(calls[1].out.ret, "datasetVersionFile")
    /\ "errors" \notin DOMAIN calls[1].out.ret
PreviewedFile == calls[1].out.ret.data.datasetVersionFile[1]

\* C11: preview_dataset_file sends one query and, when the file exists, returns exactly
\* file_id (its argument), properties (the answer's), and sample, status and
\* status_reason: all None when fileSample is null or missing, else fileSample's
\* sample, status and statusReason.
C11_PreviewFlattensSample ==
    /\ (Invoked("preview_dataset_file") /\ OPENHEXA_AVAILABLE) =>
          /\ Len(calls) = 1
          /\ calls[1].doc = "GetDatasetVersionFileSample" /\ calls[1].kind = "query"
          /\ calls[1].vars = [id |-> args.file_id]
    /\ PreviewAnswered =>
          LET fileSample == Get(PreviewedFile, "fileSample", None)
          IN  /\ propagated = None
              /\ DOMAIN result = {"file_id", "sample", "status", "status_reason", "properties"}
              /\ result.file_id = args.file_id
              /\ result.properties = Get(PreviewedFile, "properties", None)
              /\ fileSample = None =>
                    (result.sample = None /\ result.status = None
                        /\ result.status_reason = None)
              /\ fileSample # None =>
                    /\ result.sample = fileSample[1].sample
                    /\ result.status = fileSample[1].status
                    /\ result.status_reason = fileSample[1].statusReason

C11_Witness ==
    /\ PreviewAnswered
    /\ args.file_id = "f1"
    /\ "fileSample" \in DOMAIN PreviewedFile /\ PreviewedFile.fileSample = None
    /\ result = [file_id |-> "f1", sample |-> None, status |-> None,
                 status_reason |-> None, properties |-> Some("{rows: 2}")]

\* ---- packaging, exercised on its own ----
\* code points of the source texts packaged: x, e-acute, the euro sign, an emoji
\* outside the basic plane, and a lone surrogate (a str may hold one)
SourceAlphabet == {120, 233, 8364, 128512, 55296}
MaxSourceLen == 3
Sources == SeqsUpTo(SourceAlphabet, MaxSourceLen)

\* the process holds a source text; nothing has been packaged yet
PackInit ==
    /\ OPENHEXA_AVAILABLE \in BOOLEAN
    /\ spy = 0
    /\ tool = "none"
    /\ args \in {[code_content |-> s] : s \in Sources}
    /\ calls = <<>>
    /\ result = NoResult
    /\ propagated = None

\* one call of _create_pipeline_zipfile(code_content) at some reading of the clock
Pack ==
    \E now \in Clock :
        LET run == _create_pipeline_zipfile(args.code_content, now)
        IN  /\ tool' = "_create_pipeline_zipfile"
            /\ result' = IF IsExc(run) THEN NoResult ELSE [returned |-> run.ret]
            /\ propagated' = IF IsExc(run) THEN Some(run.exc) ELSE None
            /\ UNCHANGED <<OPENHEXA_AVAILABLE, spy, args, calls>>

PackNext == Pack
PackSpec == PackInit /\ [][PackNext]_vars

\* base64.b64decode of the returned text
Base64Index(c) == (CHOOSE i \in DOMAIN Base64Alphabet : Base64Alphabet[i] = c) - 1
RECURSIVE b64decode(_)
b64decode(text) ==
    IF Len(text) < 4 THEN <<>>
    ELSE LET v(i) == IF text[i] = "=" THEN 0 ELSE Base64Index(text[i])
             b1 == (v(1) * 4) + (v(2) \div 16)
             b2 == ((v(2) % 16) * 16) + (v(3) \div 4)
             b3 == ((v(3) % 4) * 64) + v(4)
         IN  (IF text[3] = "=" THEN <<b1>>
              ELSE IF text[4] = "=" THEN <<b1, b2>> ELSE <<b1, b2, b3>>)
             \o b64decode(SubSeq(text, 5, Len(text)))

\* reading the archive back: 16-bit fields, the stored block, the members in order,
\* the end record (without a matching one the bytes are not an archive)
Word(bytes, i) == bytes[i] + (256 * bytes[i + 1])
Inflate(stream) ==
    IF /\ Len(stream) >= 5
       /\ stream[1] = 1
       /\ Word(stream, 2) + Word(stream, 4) = 65535
       /\ Len(stream) = 5 + Word(stream, 2)
    THEN SubSeq(stream, 6, Len(stream)) ELSE <<>>
RECURSIVE ZipMembers(_, _)
ZipMembers(bytes, pos) ==
    IF pos + 15 > Len(bytes) \/ SubSeq(bytes, pos, pos + 3) # LocalHeaderSignature
    THEN <<>>
    ELSE LET csize == Word(bytes, pos + 10)
             namelen == Word(bytes, pos + 14)
             start == pos + 16 + namelen
         IN  IF start + csize - 1 > Len(bytes) THEN <<>>
             ELSE <<[filename |-> SubSeq(bytes, pos + 16, start - 1),
                     compress_type |-> Word(bytes, pos + 4),
                     time |-> Word(bytes, pos + 6),
                     date |-> Word(bytes, pos + 8),
                     file_size |-> Word(bytes, pos + 12),
                     data |-> Inflate(SubSeq(bytes, start, start + csize - 1)),
                     end |-> start + csize - 1]>>
                  \o ZipMembers(bytes, start + csize)
\* bytes.decode("utf-8") of a member
RECURSIVE Utf8Decode(_)
Utf8Decode(bytes) ==
    IF bytes = <<>> THEN <<>>
    ELSE LET b == bytes[1]
             n == IF b < 128 THEN 1 ELSE IF b < 224 THEN 2 ELSE IF b < 240 THEN 3 ELSE 4
             Cont(i) == bytes[i] % 64
         IN  IF n > Len(bytes) THEN <<65533>>
             ELSE <<CASE n = 1 -> b
                      [] n = 2 -> ((b - 192) * 64) + Cont(2)
                      [] n = 3 -> ((b - 224) * 4096) + (Cont(2) * 64) + Cont(3)
                      [] n = 4 -> ((b - 240) * 262144) + (Cont(2) * 4096)
                                    + (Cont(3) * 64) + Cont(4)>>
                  \o Utf8Decode(SubSeq(bytes, n + 1, Len(bytes)))

\* the decoded archive contents of a returned text: member names and member texts,
\* without the time stamps
ZipRead(bytes) ==
    LET members == ZipMembers(bytes, 1)
        end == IF members = <<>> THEN 0 ELSE members[Len(members)].end
    IN  IF SubSeq(bytes, end + 1, Len(bytes)) = EndRecordSignature \o LE16(Len(members))
        THEN members ELSE <<>>
Unpacked(zipfile_b64) == ZipRead(b64decode(zipfile_b64))
ArchiveContents(zipfile_b64) ==
    LET members == Unpacked(zipfile_b64)
    IN  [i \in DOMAIN members |->
            [filename |-> members[i].filename, text |-> Utf8Decode(members[i].data)]]
Packaged == tool = "_create_pipeline_zipfile"
Encodable(text) == \A i \in DOMAIN text : ~IsSurrogate(text[i])
\* the call returned an archive of the one member pipeline.py holding the source text
RoundTrips ==
    /\ propagated = None
    /\ ArchiveContents(result.returned)
         = <<[filename |-> PipelinePy, text |-> args.code_content]>>
\* packaging the same source again, at any reading of the clock, decodes to the same
\* contents as the archive returned
PacksTheSame ==
    \A now \in Clock :
        LET again == _create_pipeline_zipfile(args.code_content, now)
        IN  /\ ~IsExc(again)
            /\ ArchiveContents(again.ret) = ArchiveContents(result.returned)

\* C12 (as stated): for every source text, decoding and unpacking what
\* _create_pipeline_zipfile returns gives exactly one member, pipeline.py, holding the
\* source text, and packaging the same source again gives the same decoded contents.
C12_EverySourceRoundTrips ==
    Packaged => (RoundTrips /\ PacksTheSame)

\* C12 (amended): the same for every source text without a lone surrogate code
\* point; a source text holding one makes _create_pipeline_zipfile raise the
\* encoding error and return nothing.
C12_EncodableSourceRoundTrips ==
    Packaged =>
        IF Encodable(args.code_content)
        THEN RoundTrips /\ PacksTheSame
        ELSE propagated # None /\ result = NoResult

C12_Witness ==
    /\ Packaged
    /\ args.code_content = <<233, 128512, 120>>
    /\ propagated = None
    /\ Len(Unpacked(result.returned)) = 1
    /\ Unpacked(result.returned)[1].time = DosTime(<<2026, 11, 2, 16, 27, 51>>)
    /\ Utf8Decode(Unpacked(result.returned)[1].data) = <<233, 128512, 120>>

\* two transport calls carry the same request
SameRequest(c1, c2) == c1.op = c2.op /\ c1.doc = c2.doc /\ c1.vars = c2.vars

\* C13: within one invocation no request is sent twice, whatever the transport
\* answered or raised: every tool makes at most one transport call, except
\* search_resources (at most three: workspaces, datasets, pipelines, in this order) and
\* create_pipeline (at most two: createPipeline, then uploadPipeline).
C13_NoRequestIsRepeated ==
    /\ \A i, j \in DOMAIN calls : i < j => ~SameRequest(calls[i], calls[j])
    /\ tool \notin {"search_resources", "create_pipeline"} => Len(calls) <= 1
    /\ Invoked("search_resources") =>
          /\ Len(calls) <= 3
          /\ \A i, j \in DOMAIN calls :
                i < j => <<calls[i].op, calls[j].op>> \in
                            {<<"workspaces", "datasets">>, <<"workspaces", "pipelines">>,
                             <<"datasets", "pipelines">>}
    /\ Invoked("create_pipeline") =>
          /\ Len(calls) <= 2
          /\ Len(calls) >= 1 => calls[1].doc = "createPipeline"
          /\ Len(calls) = 2 => calls[2].doc = "uploadPipeline"

\* a search whose first listing call raised and was not sent again
C13_Witness ==
    /\ Invoked("search_resources")
    /\ Len(calls) = 3
    /\ IsExc(calls[1].out)
    /\ <<calls[1].op, calls[2].op, calls[3].op>> = <<"workspaces", "datasets", "pipelines">>

\* the invocation just made repeats the one before it: same tool, same arguments, and
\* the remote answered each call as it did before
RepeatsLast ==
    /\ tool' = tool
    /\ args' = args
    /\ Len(calls') = Len(calls)
    /\ \A i \in DOMAIN calls : calls'[i].out = calls[i].out
\* only create_pipeline writes, and only with its two mutations
WritesOnlyToCreate ==
    \A i \in DOMAIN calls :
        IF Invoked("create_pipeline")
        THEN calls[i].kind = "mutation" /\ calls[i].doc \in {"createPipeline", "uploadPipeline"}
        ELSE calls[i].kind = "query"

\* C14: over every sequence of invocations a mutation is sent only by create_pipeline,
\* and only createPipeline and uploadPipeline; every other tool sends queries only,
\* and repeating it with the remote answering as before returns the same result.
C14_OnlyCreatePipelineWrites ==
    [][/\ WritesOnlyToCreate'
       /\ (RepeatsLast /\ tool' # "create_pipeline") =>
             (result' = result /\ propagated' = propagated /\ calls' = calls)]_vars

\* a creation that went through: both mutations sent, by create_pipeline
C14_Witness ==
    /\ Invoked("create_pipeline")
    /\ Len(calls) = 2
    /\ calls[1].kind = "mutation" /\ calls[2].kind = "mutation"
    /\ <<calls[1].doc, calls[2].doc>> = <<"createPipeline", "uploadPipeline">>
    /\ "success" \in DOMAIN result

\* what the transport answered to the i-th call of the last invocation, and to its
\* call of one SDK method
Out(i) == IF i \in DOMAIN calls THEN calls[i].out ELSE NotCalled
OutOf(op) ==
    IF \E i \in DOMAIN calls : calls[i].op = op
    THEN calls[CHOOSE i \in DOMAIN calls : calls[i].op = op].out ELSE NotCalled
\* the last invocation made again from its arguments and those answers alone
Rerun ==
    CASE tool = "list_workspaces" -> list_workspaces(args.page, args.per_page, Out(1))
      [] tool = "get_workspace_details" -> get_workspace_details(args.workspace_slug, Out(1))
      [] tool = "list_datasets" ->
            list_datasets(args.page, args.per_page, args.workspace_slug, Out(1))
      [] tool = "get_dataset_details" -> get_dataset_details(args.dataset_id, Out(1))
      [] tool = "list_pipelines" ->
            list_pipelines(args.workspace_slug, args.page, args.per_page, Out(1))
      [] tool = "get_pipeline_details" ->
            get_pipeline_details(args.workspace_slug, args.pipeline_code, Out(1))
      [] tool = "get_pipeline_runs" ->
            get_pipeline_runs(args.workspace_slug, args.pipeline_code, Out(1))
      [] tool = "list_workspace_members" -> list_workspace_members(args.workspace_slug, Out(1))
      [] tool = "create_pipeline" ->
            create_pipeline(args, Out(1), Out(2), CHOOSE now \in Clock : TRUE)
      [] tool = "list_connections" -> list_connections(args.workspace_slug, Out(1))
      [] tool = "list_webapps" ->
            list_webapps(args.workspace_slug, args.page, args.per_page, Out(1))
      [] tool = "list_dataset_versions" -> list_dataset_versions(args.dataset_id, Out(1))
      [] tool = "get_dataset_version_details" ->
            get_dataset_version_details(args.version_id, Out(1))
      [] tool = "list_dataset_files" -> list_dataset_files(args.dataset_id, Out(1))
      [] tool = "get_dataset_file_details" -> get_dataset_file_details(args.file_id, Out(1))
      [] tool = "search_datasets" ->
            search_datasets(args.query_str, args.page, args.per_page, Out(1))
      [] tool = "list_datasets_by_creator" ->
            list_datasets_by_creator(args.creator_email, args.page, args.per_page, Out(1))
      [] tool = "preview_dataset_file" -> preview_dataset_file(args.file_id, Out(1))
      [] tool = "search_resources" ->
            search_resources(args.query, args.resource_type, args.workspace_slug,
                             OutOf("workspaces"), OutOf("datasets"), OutOf("pipelines"))
      [] OTHER -> [calls |-> <<>>, ret |-> NoResult]
\* the result is the one the arguments and the answers alone give
IsolatedResult ==
    /\ propagated = None
    /\ result = Rerun.ret
    /\ Len(calls) = Len(Rerun.calls)

\* C15: no invocation changes local state (OPENHEXA_AVAILABLE stays as it was at
\* import), and the result of an invocation is the one its arguments and the answers
\* of the transport during it give, whatever was invoked before and however it ended.
C15_InvocationsAreIsolated ==
    /\ [][OPENHEXA_AVAILABLE' = OPENHEXA_AVAILABLE]_vars
    /\ []IsolatedResult

\* a read that succeeds although earlier invocations used the transport
C15_Witness ==
    /\ Invoked("list_workspace_members")
    /\ OPENHEXA_AVAILABLE
    /\ spy > Len(calls)
    /\ Len(calls) = 1
    /\ "members" \in DOMAIN result

\* the page list_datasets_by_creator fetched, when the remote answered one
PageFetched ==
    /\ Invoked("list_datasets_by_creator")
    /\ Answered(1)
    /\ "errors" \notin DOMAIN calls[1].out.ret
    /\ ~ResourceAbsent(calls[1].out.ret, "datasets")
FetchedItems == Get(calls[1].out.ret.data.datasets[1], "items", <<>>)
\* createdBy.email of an item of the page, None when the item has no creator
EmailOf(d) ==
    IF "createdBy" \in DOMAIN d /\ d.createdBy # None
    THEN Some(Get(d.createdBy[1], "email", "")) ELSE None
ItemsOfCreator(items, creator_email) ==
    LET IsTheirs(d) == EmailOf(d) = Some(creator_email)
    IN  FilterSeq(IsTheirs, items)

\* C16: list_datasets_by_creator makes one request, for the requested page and
\* without the creator, and returns the items of the fetched page whose
\* createdBy.email is creator_email, in the page's order, with `count` their number.
C16_CreatorFilterOfFetchedPage ==
    /\ (Invoked("list_datasets_by_creator") /\ OPENHEXA_AVAILABLE) =>
          /\ Len(calls) = 1
          /\ calls[1].vars = [page |-> args.page, perPage |-> args.per_page]
    /\ PageFetched =>
          /\ propagated = None
          /\ "datasets" \in DOMAIN result
          /\ result.datasets = ItemsOfCreator(FetchedItems, args.creator_email)
          /\ result.count = Len(result.datasets)
          /\ result.current_page = args.page /\ result.per_page = args.per_page

\* the answer to the upload reported success
UploadSucceeded ==
    /\ Answered(2)
    /\ "errors" \notin DOMAIN calls[2].out.ret
    /\ Get(Get(Get(calls[2].out.ret, "data", EmptyDict), "uploadPipeline", EmptyDict),
           "success", FALSE)
RequiredArgumentIsEmpty ==
    args.workspace_slug = "" \/ args.name = "" \/ args.code_content = <<>>

\* C17: create_pipeline returns "success": True only after exactly two transport
\* calls, createPipeline then uploadPipeline, both answered with success, the upload
\* carrying the pipeline code the creation returned and the version name "Initial
\* version"; with an empty workspace_slug, name or code_content it returns an error
\* and makes no transport call.
C17_SuccessMeansCreatedAndUploaded ==
    Invoked("create_pipeline") =>
        /\ Get(result, "success", FALSE) =>
              /\ Len(calls) = 2
              /\ <<calls[1].doc, calls[2].doc>> = <<"createPipeline", "uploadPipeline">>
              /\ Answered(1) /\ ~CreationFailed(calls[1].out.ret)
              /\ UploadSucceeded
              /\ calls[2].vars.input.pipelineCode
                    = CreateResult(calls[1].out.ret).pipeline[1].code
              /\ calls[2].vars.input.name = "Initial version"
              /\ ~RequiredArgumentIsEmpty
        /\ RequiredArgumentIsEmpty => (IsErrorOnly /\ calls = <<>>)

C17_Witness ==
    /\ Invoked("create_pipeline")
    /\ Get(result, "success", FALSE)
    /\ Len(calls) = 2
    /\ calls[2].vars.input.pipelineCode = "etl-1"
    /\ args.name = "etl"
    /\ result.pipeline = CreatedPipeline

====
